---- MODULE Spec2Model ----
(***************************************************************************)
(* Status workflow of public.applications (backend architecture document,  *)
(* src/unnamed/part_001): one application row, the BEFORE UPDATE trigger   *)
(* handle_application_status_change, the table's CHECK constraints and the *)
(* AFTER UPDATE triggers create_audit_log and                              *)
(* notify_application_status_change.                                       *)
(*                                                                         *)
(* An UPDATE statement is modelled by the row it proposes.  Statements     *)
(* are issued by a role whose row-level-security policy admits every row   *)
(* (supervisor/admin, policy "Officers can update assigned applications"). *)
(* PostgreSQL serialises statements on one row and runs a statement with   *)
(* its triggers atomically, so one statement is one action.                *)
(***************************************************************************)
EXTENDS Integers, Sequences, FiniteSets, TLC

\* ---------------------------------------------------------------- bounds
MaxTime == 2
MaxVersion == 4
MaxDocs == 2
MaxList == 2
MaxTokens == 2
MaxErrors == 2
MaxRequests == 2

\* ------------------------------------------------------- schema constants
\* SQL NULL of a nullable column (timestamps, officer_id).
NULL == -1

\* version INTEGER DEFAULT 1
DefaultVersion == 1

\* application_status_enum
Statuses ==
  { "draft", "submitted", "under_review", "additional_info_required",
    "interview_scheduled", "decision_pending", "approved", "rejected",
    "withdrawn", "on_hold", "appealed", "expired" }

\* form_data JSONB NOT NULL DEFAULT '{}': the default empty object and one
\* filled-in form.
FormData == { "empty", "filled" }

\* profiles that can be referenced by officer_id
Officers == { 1 }

\* the two clients that read the row and then request a transition
Actors == { "a1", "a2" }

Times == 0..MaxTime
Timestamps == Times \cup { NULL }

VARIABLES
  app,     \* the row of public.applications
  thread,  \* a public.message_threads row exists for the application
  now,     \* NOW()
  seen,    \* seen[a]: version read by actor a, NULL when a holds no read
  last,    \* outcome of the last statement
  docs,    \* public.documents: docs[id] is the row with that id
  run,     \* run[i]: the sync-dms invocation i in progress or answered
  syncLogs,\* dms_sync_logs, in insertion order
  tokens,  \* ExternalAPITokenManager.tokens: the cached TokenInfo per service
  caller,  \* caller[c]: the getToken call of caller c and what it returned
  issued,  \* number of access tokens the token endpoint has issued
  handled, \* the last handleAPIError call: error, context, response
  apiErrorLogs, \* api_error_logs, in insertion order
  rateLimits,   \* APIRateLimiter.rateLimits: RateLimitInfo per key
  checked, \* the last checkRateLimit call: key and result
  granted  \* per key: the calls allowed since its window began

vars == << app, thread, now, seen, last, docs, run, syncLogs,
           tokens, caller, issued,
           handled, apiErrorLogs, rateLimits, checked, granted >>

intVars == << handled, apiErrorLogs, rateLimits, checked, granted >>

apiVars == << tokens, caller, issued >>

syncVars == << docs, run, syncLogs >>

wfVars == << app, thread, now, seen, last >>

\* ------------------------------------------------ SQL three-valued logic
And3(a, b) ==
  IF a = "F" \/ b = "F" THEN "F"
  ELSE IF a = "T" /\ b = "T" THEN "T" ELSE "U"

Or3(a, b) ==
  IF a = "T" \/ b = "T" THEN "T"
  ELSE IF a = "F" /\ b = "F" THEN "F" ELSE "U"

IsNull3(x) == IF x = NULL THEN "T" ELSE "F"

IsNotNull3(x) == IF x = NULL THEN "F" ELSE "T"

Ge3(a, b) ==
  IF a = NULL \/ b = NULL THEN "U"
  ELSE IF a >= b THEN "T" ELSE "F"

Eq3(a, b) == IF a = b THEN "T" ELSE "F"

Ne3(a, b) == IF a = b THEN "F" ELSE "T"

\* A CHECK constraint is violated only when its expression is false.
CheckHolds(v) == v # "F"

\* ------------------------------------------------------------ the table
\* CONSTRAINT valid_dates (expiry_date is never assigned here: its conjunct
\* "expiry_date IS NULL" is true).
valid_dates(row) ==
  And3(Or3(IsNull3(row.submitted_at), Ge3(row.submitted_at, row.created_at)),
       Or3(IsNull3(row.decision_date),
           Ge3(row.decision_date, row.submitted_at)))

\* valid_status_transitions with the constraint dropped.
valid_status_transitions_Dropped(row) == "T"

\* CONSTRAINT valid_status_transitions
valid_status_transitions(row) ==
  Or3(And3(Eq3(row.status, "draft"), IsNull3(row.submitted_at)),
      And3(Ne3(row.status, "draft"), IsNotNull3(row.submitted_at)))

ConstraintsHold(row) ==
  CheckHolds(valid_dates(row)) /\ CheckHolds(valid_status_transitions(row))

\* INSERT INTO public.applications with the column defaults at time t.
NewApplication(t) ==
  [ status            |-> "draft",
    form_data         |-> "empty",
    officer_id        |-> NULL,
    submitted_at      |-> NULL,
    review_started_at |-> NULL,
    decision_date     |-> NULL,
    created_at        |-> t,
    version           |-> DefaultVersion ]

\* ------------------------------------------------------------- triggers
\* BEFORE UPDATE: handle_application_status_change
handle_application_status_change(OLDROW, NEWROW, t) ==
  LET n1 == IF NEWROW.status = "submitted"
            THEN IF OLDROW.status = "draft"
                 THEN [NEWROW EXCEPT !.submitted_at = t]
                 ELSE NEWROW
            ELSE IF NEWROW.status = "under_review"
            THEN IF NEWROW.review_started_at = NULL
                 THEN [NEWROW EXCEPT !.review_started_at = t]
                 ELSE NEWROW
            ELSE IF NEWROW.status \in { "approved", "rejected" }
            THEN IF NEWROW.decision_date = NULL
                 THEN [NEWROW EXCEPT !.decision_date = t]
                 ELSE NEWROW
            ELSE NEWROW
  IN IF OLDROW.form_data # n1.form_data \/ OLDROW.status # n1.status
     THEN [n1 EXCEPT !.version = OLDROW.version + 1]
     ELSE n1

\* AFTER UPDATE: notify_application_status_change.  The result is the list
\* of messages rows it inserts and the list of pg_notify payloads.
StatusChanged(OLDROW, NEWROW) == OLDROW.status # NEWROW.status

notify_messages(OLDROW, NEWROW, hasThread) ==
  IF StatusChanged(OLDROW, NEWROW) /\ hasThread
  THEN << [ sender_id    |-> NEWROW.officer_id,
            message_type |-> "status_update",
            old_status   |-> OLDROW.status,
            new_status   |-> NEWROW.status ] >>
  ELSE << >>

\* notify_application_status_change with pg_notify outside the IF.
notify_events_Always(OLDROW, NEWROW) ==
  << [ application_id |-> "app",
       old_status     |-> OLDROW.status,
       new_status     |-> NEWROW.status ] >>

notify_events(OLDROW, NEWROW) ==
  IF StatusChanged(OLDROW, NEWROW)
  THEN << [ application_id |-> "app",
            old_status     |-> OLDROW.status,
            new_status     |-> NEWROW.status ] >>
  ELSE << >>

\* messages.sender_id UUID NOT NULL
MessagesInsertable(msgs) == \A i \in 1..Len(msgs) : msgs[i].sender_id # NULL

\* ---------------------------------------------------------- statements
NoOutcome ==
  [ kind |-> "none", target |-> "draft", result |-> "none",
    events |-> << >>, messages |-> << >>, audit |-> 0, stale |-> FALSE ]

\* Outcome with the row update kept when the AFTER trigger's insert fails.
Outcome_NoRollback(OLDROW, NEWROW, t, hasThread, kind, isStale) ==
  LET n    == handle_application_status_change(OLDROW, NEWROW, t)
      msgs == notify_messages(OLDROW, n, hasThread)
      none == [ NoOutcome EXCEPT !.kind = kind, !.target = NEWROW.status,
                                 !.stale = isStale ]
  IN IF ~ConstraintsHold(n)
     THEN [ row |-> OLDROW,
            out |-> [ none EXCEPT !.result = "check_violation" ] ]
     ELSE IF ~MessagesInsertable(msgs)
     THEN [ row |-> n,
            out |-> [ none EXCEPT !.result = "not_null_violation" ] ]
     ELSE [ row |-> n,
            out |-> [ kind     |-> kind,
                      target   |-> NEWROW.status,
                      result   |-> "ok",
                      events   |-> notify_events(OLDROW, n),
                      messages |-> msgs,
                      audit    |-> 1,
                      stale    |-> isStale ] ]

\* The row and the outcome that UPDATE ... SET <row> produces on OLDROW.
\* The statement with its triggers is one transaction: a violated CHECK or
\* a failed insert in an AFTER trigger aborts it and nothing is kept.
\* create_audit_log (AFTER UPDATE) appends one audit_logs row.
Outcome(OLDROW, NEWROW, t, hasThread, kind, isStale) ==
  LET n    == handle_application_status_change(OLDROW, NEWROW, t)
      msgs == notify_messages(OLDROW, n, hasThread)
      none == [ NoOutcome EXCEPT !.kind = kind, !.target = NEWROW.status,
                                 !.stale = isStale ]
  IN IF ~ConstraintsHold(n)
     THEN [ row |-> OLDROW,
            out |-> [ none EXCEPT !.result = "check_violation" ] ]
     ELSE IF ~MessagesInsertable(msgs)
     THEN [ row |-> OLDROW,
            out |-> [ none EXCEPT !.result = "not_null_violation" ] ]
     ELSE [ row |-> n,
            out |-> [ kind     |-> kind,
                      target   |-> NEWROW.status,
                      result   |-> "ok",
                      events   |-> notify_events(OLDROW, n),
                      messages |-> msgs,
                      audit    |-> 1,
                      stale    |-> isStale ] ]

\* One UPDATE of the application row proposing NEWROW.
Statement(NEWROW, kind, isStale) ==
  LET r == Outcome(app, NEWROW, now, thread, kind, isStale) IN
    /\ r.row.version <= MaxVersion
    /\ app' = r.row
    /\ last' = r.out
    /\ UNCHANGED << syncVars, apiVars, intVars >>

\* create_audit_log: the audit_logs row the AFTER trigger inserts for one
\* row change (TG_TABLE_NAME, action, to_jsonb(OLD), to_jsonb(NEW)).
create_audit_log(tableName, op, OLDROW, NEWROW) ==
  [ table_name |-> tableName, action |-> op,
    old_values |-> OLDROW, new_values |-> NEWROW ]

\* AuditedOutcome that keeps the row change when the audit insert fails.
AuditedOutcome_NoAbort(OLDROW, NEWROW, t, hasThread, kind, auditOk) ==
  LET r == Outcome(OLDROW, NEWROW, t, hasThread, kind, FALSE) IN
  IF r.out.result # "ok"
  THEN [ r EXCEPT !.out.audit = << >> ]
  ELSE IF ~auditOk
  THEN [ row |-> r.row,
         out |-> [ NoOutcome EXCEPT !.kind = kind,
                                    !.target = NEWROW.status,
                                    !.result = "audit_failure",
                                    !.audit = << >> ] ]
  ELSE [ r EXCEPT !.out.audit =
           << create_audit_log("applications", "UPDATE", OLDROW, r.row) >> ]

\* The statement of Outcome with its audit rows kept: out.audit holds the
\* rows create_audit_log inserted.  auditOk: the insert into audit_logs
\* succeeds; when it does not, the AFTER trigger raises and the statement
\* is rolled back.
AuditedOutcome(OLDROW, NEWROW, t, hasThread, kind, auditOk) ==
  LET r == Outcome(OLDROW, NEWROW, t, hasThread, kind, FALSE) IN
  IF r.out.result # "ok"
  THEN [ r EXCEPT !.out.audit = << >> ]
  ELSE IF ~auditOk
  THEN [ row |-> OLDROW,
         out |-> [ NoOutcome EXCEPT !.kind = kind,
                                    !.target = NEWROW.status,
                                    !.result = "audit_failure",
                                    !.audit = << >> ] ]
  ELSE [ r EXCEPT !.out.audit =
           << create_audit_log("applications", "UPDATE", OLDROW, r.row) >> ]

\* One UPDATE of the application row proposing NEWROW, audit rows kept.
AuditedStatement(NEWROW, kind) ==
  \E auditOk \in BOOLEAN :
    LET r == AuditedOutcome(app, NEWROW, now, thread, kind, auditOk) IN
      /\ r.row.version <= MaxVersion
      /\ app' = r.row
      /\ last' = r.out
      /\ UNCHANGED << thread, now, seen >>
      /\ UNCHANGED << syncVars, apiVars, intVars >>

\* ================================================================ sync-dms
\* DMS synchronisation edge function (API integration guide,
\* src/unnamed/part_002) and public.documents (src/unnamed/part_001).

\* SQL NULL / JavaScript undefined of a text value.
NULLTEXT == "NULL"

\* the sync-dms invocations
Invocations == { "i1", "i2" }

\* ids the external DMS gives to its documents; the last one belongs to a
\* document that was never uploaded from here.
ExtIds == 1..(MaxDocs + 1)

\* getDMSConfigurations(): the configured systems
getDMSConfigurations == << [ systemId |-> "sharepoint-main",
                             type |-> "sharepoint",
                             retryAttempts |-> 3,
                             conflictResolution |-> "manual" ] >>

\* dmsSystemId of a request: a configured system, an unknown one, or absent
SystemIds == { "sharepoint-main", "filenet-legacy", NULLTEXT }

\* DMSSyncRequest.action, and one value outside the union
SyncActions == { "push", "pull", "full_sync", "status", "reindex" }

\* DMSSyncOptions.conflictResolution (NULLTEXT: not given)
Policies == { "local_wins", "remote_wins", "manual", NULLTEXT }

\* A row of public.documents as a local upload creates it.
UploadedDocument ==
  [ application_id  |-> "app",
    uploaded_by     |-> "citizen",
    original_name   |-> "scan.pdf",
    mime_type       |-> "application/pdf",
    storage_path    |-> "app/scan.pdf",
    file_name       |-> "scan.pdf",
    file_size       |-> 10,
    file_type       |-> "pdf",
    metadata        |-> "{}",
    external_dms_id |-> NULL,
    synced_at       |-> NULL,
    needs_sync      |-> FALSE,
    sync_metadata   |-> NULLTEXT ]

\* Columns of public.documents that an INSERT leaves out.
OmittedColumns ==
  [ application_id  |-> NULLTEXT,
    uploaded_by     |-> NULLTEXT,
    original_name   |-> NULLTEXT,
    mime_type       |-> NULLTEXT,
    storage_path    |-> NULLTEXT,
    needs_sync      |-> FALSE ]

\* The descriptors the external DMS may list: name, size, type, metadata.
\* One of them has a size that public.documents refuses.
ExternalFields ==
  { [ name |-> "remote.pdf", size |-> 20, type |-> "pdf",
      metadata |-> "{dms}" ],
    [ name |-> "remote.png", size |-> 0, type |-> "png",
      metadata |-> "{dms}" ] }

ExternalDocuments ==
  { [ id |-> e, name |-> f.name, size |-> f.size, type |-> f.type,
      metadata |-> f.metadata ] : e \in ExtIds, f \in ExternalFields }

\* CONSTRAINT valid_file_size
valid_file_size(row) == row.file_size > 0 /\ row.file_size < 104857600

\* NOT NULL columns of public.documents without a default
DocumentNotNullHolds(row) ==
  /\ row.application_id # NULLTEXT
  /\ row.uploaded_by # NULLTEXT
  /\ row.file_name # NULLTEXT
  /\ row.original_name # NULLTEXT
  /\ row.file_type # NULLTEXT
  /\ row.mime_type # NULLTEXT
  /\ row.storage_path # NULLTEXT

DocumentRowAccepted(row) == DocumentNotNullHolds(row) /\ valid_file_size(row)

\* No report / no response yet.
EmptyReport ==
  [ totalDocuments |-> 0, successful |-> 0, failed |-> 0, dryRun |-> 0,
    results |-> << >> ]

NoResponse ==
  [ success |-> FALSE, error |-> "none", shape |-> "none",
    report |-> EmptyReport, push |-> EmptyReport, pull |-> EmptyReport,
    lastSync |-> NULL ]

NoEffects == [ downloads |-> 0, uploads |-> 0, writes |-> 0 ]

\* A DMSSyncRequest: action, dmsSystemId, documentIds, options.dryRun,
\* options.conflictResolution.
NoRequest ==
  [ action |-> "none", dmsSystemId |-> NULLTEXT, documentIds |-> {},
    dryRun |-> FALSE, conflictResolution |-> NULLTEXT ]

\* An invocation that has not been made yet.  queue: the candidates the
\* query returned; listing: the descriptors the external DMS listed;
\* results: the results array of the running loop; effects: the calls made;
\* audit: the audit_logs rows its last statement on public.documents wrote.
IdleRun ==
  [ phase       |-> "idle",
    request     |-> NoRequest,
    queue       |-> << >>,
    listing     |-> << >>,
    results     |-> << >>,
    pushReport  |-> EmptyReport,
    effects     |-> NoEffects,
    audit       |-> << >>,
    cancelRequested |-> FALSE,
    stored      |-> {},
    response    |-> NoResponse ]

\* One entry of a run's results array: documentId, externalId, status,
\* action as the code writes them; error stands for error.message; attempts
\* counts the upload requests sent for the item.
Entry(documentId, externalId, status, action, error) ==
  [ documentId |-> documentId, externalId |-> externalId,
    status |-> status, action |-> action, error |-> error,
    attempts |-> 0 ]

\* results.filter(r => r.status === st).length
RECURSIVE CountStatus(_, _)
CountStatus(results, st) ==
  IF results = << >> THEN 0
  ELSE (IF Head(results).status = st THEN 1 ELSE 0)
       + CountStatus(Tail(results), st)

\* SyncReport that leaves the failed items out of its count.
SyncReport_FailedUncounted(total, results) ==
  [ totalDocuments |-> total,
    successful     |-> CountStatus(results, "success"),
    failed         |-> 0,
    dryRun         |-> CountStatus(results, "dry_run"),
    results        |-> results ]

\* The object pushDocumentsToDMS / pullDocumentsFromDMS return.
SyncReport(total, results) ==
  [ totalDocuments |-> total,
    successful     |-> CountStatus(results, "success"),
    failed         |-> CountStatus(results, "error"),
    dryRun         |-> CountStatus(results, "dry_run"),
    results        |-> results ]

\* dmsSystemId ? dmsConfigs.find(c => c.systemId === dmsSystemId)
\*             : dmsConfigs[0]; << >> when nothing is found.
FindConfig(dmsSystemId) ==
  IF dmsSystemId = NULLTEXT
  THEN << getDMSConfigurations[1] >>
  ELSE SelectSeq(getDMSConfigurations, LAMBDA c : c.systemId = dmsSystemId)

\* The ids of set S from d up to n, in id order.
RECURSIVE IdsFrom(_, _, _)
IdsFrom(S, d, n) ==
  IF d > n THEN << >>
  ELSE (IF d \in S THEN << d >> ELSE << >>) \o IdsFrom(S, d + 1, n)

\* The rows the push query selects: documentIds when given, otherwise the
\* rows never synced or marked as needing sync.
PushCandidates(table, documentIds) ==
  IF documentIds # {}
  THEN IdsFrom(documentIds, 1, Len(table))
  ELSE IdsFrom({ d \in 1..Len(table) :
                   table[d].external_dms_id = NULL \/ table[d].needs_sync },
               1, Len(table))

\* getSharePointAccessToken: throws when the token endpoint does not accept
\* the credentials.
getSharePointAccessToken(tokenAnswer) ==
  IF tokenAnswer = "ok" THEN "ok" ELSE "error"

\* result.d.UniqueId of Files/add(url='${document.file_name}',overwrite=true):
\* the id of the file the store keeps under that name in the folder.  An
\* upload under a name that is already there replaces the content of that
\* file, which keeps its id.
UniqueId(fileName) ==
  CASE fileName = "scan.pdf"   -> 1
    [] fileName = "remote.pdf" -> 2
    [] OTHER                   -> 3

\* uploadToSharePoint: token, then one POST; answer is the environment's
\* (ok, transient: unreachable or 5xx, rejected: other 4xx).
uploadToSharePoint(tokenAnswer, answer, extId) ==
  IF getSharePointAccessToken(tokenAnswer) = "error"
  THEN [ ok |-> FALSE, error |-> "authentication", posts |-> 0,
         externalId |-> NULL ]
  ELSE IF answer # "ok"
  THEN [ ok |-> FALSE, error |-> answer, posts |-> 1, externalId |-> NULL ]
  ELSE [ ok |-> TRUE, error |-> "none", posts |-> 1, externalId |-> extId ]

\* uploadToExternalDMS: switch (config.type)
uploadToExternalDMS(config, tokenAnswer, answer, extId) ==
  IF config.type = "sharepoint"
  THEN uploadToSharePoint(tokenAnswer, answer, extId)
  ELSE IF config.type \in { "filenet", "documentum" }
  THEN [ ok |-> TRUE, error |-> "none", posts |-> 0, externalId |-> extId ]
  ELSE [ ok |-> FALSE, error |-> "unsupported", posts |-> 0,
         externalId |-> NULL ]

\* What the environment answers while one push item is processed.
PushEnvs ==
  [ download : { "ok", "error" },
    token    : { "ok", "error" },
    upload   : { "ok", "transient", "rejected" },
    update   : { "ok", "error" } ]

\* The try block of the push loop after the dryRun check: download, upload,
\* update.  Result: the results entry, the table afterwards, the calls made,
\* and stored: the documents the external store has taken, each with the id
\* the upload returned.
SyncDocument(table, d, config, env, t) ==
  LET fail(kind, posts) ==
        [ entry |-> [ Entry(d, NULL, "error", "none", kind)
                        EXCEPT !.attempts = posts ],
          table |-> table, audit |-> << >> ]
  IN IF env.download = "error"
     THEN fail("download", 0)
            @@ [ downloads |-> 1, uploads |-> 0, writes |-> 0,
                 stored |-> {} ]
     ELSE LET up == uploadToExternalDMS(config, env.token, env.upload,
                                       UniqueId(table[d].file_name))
          IN IF ~up.ok
             THEN fail(up.error, up.posts)
                    @@ [ downloads |-> 1, uploads |-> 1, writes |-> 0,
                         stored |-> {} ]
             ELSE IF env.update = "error"
             THEN fail("update", up.posts)
                    @@ [ downloads |-> 1, uploads |-> 1, writes |-> 0,
                         stored |-> { << d, up.externalId >> } ]
             ELSE LET row == [ table[d] EXCEPT
                                 !.external_dms_id = up.externalId,
                                 !.synced_at = t,
                                 !.needs_sync = FALSE,
                                 !.sync_metadata = "{sharepoint}" ]
                  IN [ entry |-> [ Entry(d, up.externalId, "success",
                                         "synced", "none")
                                     EXCEPT !.attempts = up.posts ],
                       table |-> [ table EXCEPT ![d] = row ],
                       audit |-> << create_audit_log("documents", "UPDATE",
                                                     table[d], row) >>,
                       downloads |-> 1, uploads |-> 1, writes |-> 1,
                       stored |-> { << d, up.externalId >> } ]

\* PushItem that stamps synced_at on the row of an item that failed.
PushItem_StampsFailure(table, d, config, dryRun, env, t) ==
  LET out == IF dryRun
             THEN [ entry |-> Entry(d, NULL, "dry_run", "would_sync", "none"),
                    table |-> table, audit |-> << >>,
                    downloads |-> 0, uploads |-> 0, writes |-> 0,
                    stored |-> {} ]
             ELSE SyncDocument(table, d, config, env, t)
  IN IF out.entry.status = "error"
     THEN [ out EXCEPT !.table = [ table EXCEPT ![d].synced_at = t + 1,
                                                ![d].needs_sync = FALSE,
                                                ![d].external_dms_id = d ] ]
     ELSE out

\* PushItem without the dryRun check.
PushItem_DryRunIgnored(table, d, config, dryRun, env, t) ==
  SyncDocument(table, d, config, env, t)

\* Body of the for loop of pushDocumentsToDMS for document d of table.
PushItem(table, d, config, dryRun, env, t) ==
  IF dryRun
  THEN [ entry |-> Entry(d, NULL, "dry_run", "would_sync", "none"),
         table |-> table, audit |-> << >>,
         downloads |-> 0, uploads |-> 0, writes |-> 0, stored |-> {} ]
  ELSE SyncDocument(table, d, config, env, t)

\* mapExternalDocumentToLocal that leaves the metadata out.
mapExternalDocumentToLocal_NoMetadata(extDoc) ==
  [ file_name |-> extDoc.name,
    file_size |-> extDoc.size,
    file_type |-> extDoc.type,
    metadata  |-> "{}" ]

\* mapExternalDocumentToLocal
mapExternalDocumentToLocal(extDoc) ==
  [ file_name |-> extDoc.name,
    file_size |-> extDoc.size,
    file_type |-> extDoc.type,
    metadata  |-> extDoc.metadata ]

\* What the environment answers while one pull item is processed.
PullEnvs == [ lookup : { "ok", "error" }, write : { "ok", "error" } ]

\* .eq('external_dms_id', id).single(): the row when exactly one matches,
\* otherwise none (PGRST116).
MatchingDocuments(table, id) ==
  { d \in 1..Len(table) : table[d].external_dms_id = id }

\* The try block of the pull loop after the dryRun check: lookup, then
\* update of the matching row or insert of a new one.
ApplyExternalDocument(table, extDoc, env, t) ==
  LET m      == MatchingDocuments(table, extDoc.id)
      mapped == mapExternalDocumentToLocal(extDoc)
      fail(kind) ==
        [ entry |-> Entry(NULL, extDoc.id, "error", "none", kind),
          table |-> table, audit |-> << >>, writes |-> 0 ]
  IN IF env.lookup = "error"
     THEN fail("lookup")
     ELSE IF Cardinality(m) = 1
     THEN LET d   == CHOOSE x \in m : TRUE
              row == [ table[d] EXCEPT !.file_name = mapped.file_name,
                                       !.file_size = mapped.file_size,
                                       !.file_type = mapped.file_type,
                                       !.metadata = mapped.metadata,
                                       !.synced_at = t,
                                       !.sync_metadata = extDoc.metadata ]
          IN IF env.write = "error"
             THEN fail("write")
             ELSE IF ~DocumentRowAccepted(row)
             THEN fail("constraint")
             ELSE [ entry |-> Entry(d, extDoc.id, "success", "updated",
                                    "none"),
                    table |-> [ table EXCEPT ![d] = row ],
                    audit |-> << create_audit_log("documents", "UPDATE",
                                                  table[d], row) >>,
                    writes |-> 1 ]
     ELSE LET row == OmittedColumns @@
                     [ file_name       |-> mapped.file_name,
                       file_size       |-> mapped.file_size,
                       file_type       |-> mapped.file_type,
                       metadata        |-> mapped.metadata,
                       external_dms_id |-> extDoc.id,
                       synced_at       |-> t,
                       sync_metadata   |-> extDoc.metadata ]
          IN IF env.write = "error"
             THEN fail("write")
             ELSE IF ~DocumentRowAccepted(row)
             THEN fail("constraint")
             ELSE [ entry |-> Entry(Len(table) + 1, extDoc.id, "success",
                                    "created", "none"),
                    table |-> Append(table, row),
                    audit |-> << create_audit_log("documents", "INSERT",
                                                  OmittedColumns, row) >>,
                    writes |-> 1 ]

\* Body of the for loop of pullDocumentsFromDMS for descriptor extDoc.
PullItem(table, extDoc, dryRun, env, t) ==
  IF dryRun
  THEN [ entry |-> Entry(NULL, extDoc.id, "dry_run", "would_update", "none"),
         table |-> table, audit |-> << >>, writes |-> 0 ]
  ELSE ApplyExternalDocument(table, extDoc, env, t)

\* ============================================== ExternalAPITokenManager
\* Token management of the API integration guide.

\* getServiceConfig: the configured services and their auth type
ServiceType ==
  [ sharepoint |-> "oauth2", brp |-> "jwt", kvk |-> "api_key" ]

Services == DOMAIN ServiceType

\* the overlapping users of the token manager
Callers == { "c1", "c2" }

\* result.access_token undefined
NoToken == 0

\* Date.now() + undefined * 1000
NaN == -2

\* config.apiKey and 'jwt-token-placeholder': tokens that do not come from
\* the token endpoint
ApiKey == -3
JwtPlaceholder == -4

\* this.tokens.get(service) === undefined
NoTokenInfo == [ present |-> FALSE, token |-> NoToken, expiresAt |-> NaN ]

\* A caller outside getToken.  got: what its last call returned (kind none,
\* token or error; cached: the token came from the cache); started: the
\* number of tokens issued when the call began.
IdleCaller ==
  [ pc |-> "idle", service |-> "sharepoint",
    got |-> [ kind |-> "none", token |-> NoToken, cached |-> FALSE ],
    started |-> 0 ]

\* result.expires_in of a granted token, in clock ticks
ExpiresIn == { 0, 1 }

\* Answers of the token endpoint: a token is granted, an error body without
\* access_token and expires_in, or the request fails.
TokenAnswers ==
  { [ kind |-> "granted", expires_in |-> e ] : e \in ExpiresIn } \cup
  { [ kind |-> "error_body", expires_in |-> 0 ],
    [ kind |-> "network_error", expires_in |-> 0 ] }

\* isTokenExpired with > for >=.
isTokenExpired_Late(tokenInfo, t) ==
  IF tokenInfo.expiresAt = NaN THEN FALSE ELSE t > tokenInfo.expiresAt

\* isTokenExpired: Date.now() >= tokenInfo.expiresAt (false for NaN)
isTokenExpired(tokenInfo, t) ==
  IF tokenInfo.expiresAt = NaN THEN FALSE ELSE t >= tokenInfo.expiresAt

\* refreshOAuth2Token after the fetch: the TokenInfo it stores and the token
\* it returns.  A failed request throws before anything is stored.
refreshOAuth2Token(answer, fresh, t) ==
  IF answer.kind = "network_error"
  THEN [ stored |-> FALSE, info |-> NoTokenInfo, kind |-> "error",
         token |-> NoToken ]
  ELSE IF answer.kind = "error_body"
  THEN [ stored |-> TRUE,
         info |-> [ present |-> TRUE, token |-> NoToken, expiresAt |-> NaN ],
         kind |-> "token", token |-> NoToken ]
  ELSE [ stored |-> TRUE,
         info |-> [ present |-> TRUE, token |-> fresh,
                    expiresAt |-> t + answer.expires_in ],
         kind |-> "token", token |-> fresh ]

\* ======================================================== APIErrorHandler
\* Centralized error handling of the API integration guide.

\* error.status of the failures a call of an external service ends with
HttpStatuses == { 400, 401, 403, 404, 429, 500, 503 }

\* The errors handed to handleAPIError: a timeout, a failed fetch (the
\* backend is unreachable; no status), or a response with an error status,
\* for 429 with or without a retry-after header (in seconds).
APIErrors ==
  { [ name |-> n, status |-> NULL, retryAfter |-> NULL ] :
      n \in { "TimeoutError", "TypeError" } } \cup
  { [ name |-> "Error", status |-> st, retryAfter |-> NULL ] :
      st \in HttpStatuses } \cup
  { [ name |-> "Error", status |-> 429, retryAfter |-> 5 ] }

\* APIContext: service and endpoint of the failed call
APIContexts ==
  { [ service |-> "sharepoint", endpoint |-> "files" ],
    [ service |-> "brp", endpoint |-> "persons" ] }

\* parseRetryAfter: the header in milliseconds, one minute without it
parseRetryAfter(retryAfter) ==
  IF retryAfter # NULL THEN retryAfter * 1000 ELSE 60000

\* handleAPIError after logAPIError: the APIErrorResponse for error
handleAPIError(error) ==
  IF error.name = "TimeoutError"
  THEN [ error |-> "API_TIMEOUT", retryable |-> TRUE, retryAfter |-> 30000 ]
  ELSE IF error.status = 429
  THEN [ error |-> "RATE_LIMITED", retryable |-> TRUE,
         retryAfter |-> parseRetryAfter(error.retryAfter) ]
  ELSE IF error.status # NULL /\ error.status >= 500
  THEN [ error |-> "SERVER_ERROR", retryable |-> TRUE, retryAfter |-> 60000 ]
  ELSE IF error.status = 401 \/ error.status = 403
  THEN [ error |-> "AUTH_ERROR", retryable |-> FALSE, retryAfter |-> NULL ]
  ELSE [ error |-> "INTEGRATION_ERROR", retryable |-> FALSE,
         retryAfter |-> NULL ]

\* logAPIError: the row inserted into api_error_logs
logAPIError(logs, error, context, t) ==
  Append(logs, [ service     |-> context.service,
                 endpoint    |-> context.endpoint,
                 error_type  |-> error.name,
                 status_code |-> error.status,
                 timestamp   |-> t ])

\* handleAPIError has not been called
NoHandled ==
  [ error    |-> [ name |-> "none", status |-> NULL, retryAfter |-> NULL ],
    context  |-> [ service |-> "none", endpoint |-> "none" ],
    response |-> [ error |-> "none", retryable |-> FALSE,
                   retryAfter |-> NULL ] ]

\* ========================================================= APIRateLimiter
\* Rate limiting of the API integration guide.

\* `${service}:${endpoint}`
RateKeys ==
  { << "sharepoint", "files" >>, << "sharepoint", "search" >>,
    << "brp", "persons" >> }

\* this.rateLimits.get(key) === undefined
NoRateLimitInfo ==
  [ present |-> FALSE, count |-> 0, resetTime |-> 0, maxRequests |-> 0 ]

\* checkRateLimit has not been called
NoCheck == [ key |-> << "none", "none" >>, result |-> FALSE ]

\* getRateLimitWindow: one minute for every service, one tick of the clock
getRateLimitWindow(service) == 1

\* getMaxRequests: the limit of brp is lower than that of sharepoint
\* (50 and 100 requests, scaled down)
getMaxRequests(service) ==
  IF service = "brp" THEN MaxRequests - 1 ELSE MaxRequests

\* checkRateLimit with > for >= in the comparison with maxRequests.
checkRateLimit_OneMore(limit, service, t) ==
  IF ~limit.present
  THEN [ ok |-> TRUE, reset |-> TRUE,
         limit |-> [ present |-> TRUE, count |-> 1,
                     resetTime |-> t + getRateLimitWindow(service),
                     maxRequests |-> getMaxRequests(service) ] ]
  ELSE IF t > limit.resetTime
  THEN [ ok |-> TRUE, reset |-> TRUE,
         limit |-> [ limit EXCEPT
                       !.count = 1,
                       !.resetTime = t + getRateLimitWindow(service) ] ]
  ELSE IF limit.count > limit.maxRequests
  THEN [ ok |-> FALSE, reset |-> FALSE, limit |-> limit ]
  ELSE [ ok |-> TRUE, reset |-> FALSE,
         limit |-> [ limit EXCEPT !.count = @ + 1 ] ]

\* checkRateLimit for the entry limit of a key of service at time t: the
\* result, the entry afterwards, and whether a window began.
checkRateLimit(limit, service, t) ==
  IF ~limit.present
  THEN [ ok |-> TRUE, reset |-> TRUE,
         limit |-> [ present |-> TRUE, count |-> 1,
                     resetTime |-> t + getRateLimitWindow(service),
                     maxRequests |-> getMaxRequests(service) ] ]
  ELSE IF t > limit.resetTime
  THEN [ ok |-> TRUE, reset |-> TRUE,
         limit |-> [ limit EXCEPT
                       !.count = 1,
                       !.resetTime = t + getRateLimitWindow(service) ] ]
  ELSE IF limit.count >= limit.maxRequests
  THEN [ ok |-> FALSE, reset |-> FALSE, limit |-> limit ]
  ELSE [ ok |-> TRUE, reset |-> FALSE,
         limit |-> [ limit EXCEPT !.count = @ + 1 ] ]

\* ------------------------------------------------------------- actions
Init ==
  /\ now = 0
  /\ app = NewApplication(0)
  /\ thread = FALSE
  /\ seen = [ a \in Actors |-> NULL ]
  /\ last = NoOutcome
  /\ docs = [ d \in 1..MaxDocs |-> UploadedDocument ]
  /\ run = [ i \in Invocations |-> IdleRun ]
  /\ syncLogs = << >>
  /\ tokens = [ s \in Services |-> NoTokenInfo ]
  /\ caller = [ c \in Callers |-> IdleCaller ]
  /\ issued = 0
  /\ handled = NoHandled
  /\ apiErrorLogs = << >>
  /\ rateLimits = [ k \in RateKeys |-> NoRateLimitInfo ]
  /\ checked = NoCheck
  /\ granted = [ k \in RateKeys |-> 0 ]

\* UPDATE applications SET status = s
Transition ==
  \E s \in Statuses :
    /\ Statement([app EXCEPT !.status = s], "transition", FALSE)
    /\ UNCHANGED << thread, now, seen >>

\* UPDATE applications SET form_data = f
EditForm ==
  \E f \in FormData :
    /\ Statement([app EXCEPT !.form_data = f], "edit_form", FALSE)
    /\ UNCHANGED << thread, now, seen >>

\* UPDATE applications SET officer_id = o
AssignOfficer ==
  \E o \in Officers \cup { NULL } :
    /\ Statement([app EXCEPT !.officer_id = o], "assign", FALSE)
    /\ UNCHANGED << thread, now, seen >>

\* UPDATE applications SET status = s, submitted_at = x
WriteSubmittedAt ==
  \E s \in Statuses, x \in Timestamps :
    /\ Statement([app EXCEPT !.status = s, !.submitted_at = x],
                 "write_submitted_at", FALSE)
    /\ UNCHANGED << thread, now, seen >>

\* UPDATE applications SET status = s, review_started_at = x
WriteReviewStartedAt ==
  \E s \in Statuses, x \in Timestamps :
    /\ Statement([app EXCEPT !.status = s, !.review_started_at = x],
                 "write_review_started_at", FALSE)
    /\ UNCHANGED << thread, now, seen >>

\* UPDATE applications SET status = s, decision_date = x
WriteDecisionDate ==
  \E s \in Statuses, x \in Timestamps :
    /\ Statement([app EXCEPT !.status = s, !.decision_date = x],
                 "write_decision_date", FALSE)
    /\ UNCHANGED << thread, now, seen >>

\* UPDATE applications SET version = x
WriteVersion ==
  \E x \in DefaultVersion..MaxVersion :
    /\ Statement([app EXCEPT !.version = x], "write_version", FALSE)
    /\ UNCHANGED << thread, now, seen >>

\* INSERT INTO public.message_threads (application_id, ...)
CreateThread ==
  /\ ~thread
  /\ thread' = TRUE
  /\ UNCHANGED << app, now, seen, last >>
  /\ UNCHANGED << syncVars, apiVars, intVars >>

\* time passes
Tick ==
  /\ now < MaxTime
  /\ now' = now + 1
  /\ UNCHANGED << app, thread, seen, last >>
  /\ UNCHANGED << syncVars, apiVars, intVars >>

\* SELECT version FROM applications WHERE id = app, by actor a
Read(a) ==
  /\ seen[a] = NULL
  /\ seen' = [ seen EXCEPT ![a] = app.version ]
  /\ UNCHANGED << app, thread, now, last >>
  /\ UNCHANGED << syncVars, apiVars, intVars >>

\* Actor a, holding a read, requests UPDATE applications SET status = s.
\* The statement carries no version predicate and no trigger compares
\* versions; "stale" records that the stored version moved past a's read.
TransitionBy(a) ==
  \E s \in Statuses :
    /\ seen[a] # NULL
    /\ s # app.status
    /\ Statement([app EXCEPT !.status = s], "transition",
                 seen[a] # app.version)
    /\ seen' = [ seen EXCEPT ![a] = NULL ]
    /\ UNCHANGED << thread, now >>

ReadAny == \E a \in Actors : Read(a)

TransitionByAny == \E a \in Actors : TransitionBy(a)

\* The workflow engine's own statements.
Next == Transition \/ EditForm \/ AssignOfficer \/ CreateThread \/ Tick

Spec == Init /\ [][Next]_vars

\* Statements that also write submitted_at.
NextSub == Transition \/ WriteSubmittedAt \/ Tick

SpecSub == Init /\ [][NextSub]_vars

\* Statements that also write review_started_at or decision_date.
NextRev == Transition \/ WriteReviewStartedAt \/ WriteDecisionDate \/ Tick

SpecRev == Init /\ [][NextRev]_vars

\* Statements that also write version.
NextVersion == Transition \/ EditForm \/ AssignOfficer \/ WriteVersion \/ Tick

SpecVersion == Init /\ [][NextVersion]_vars

\* Two actors that read and then request a transition.
NextConc == ReadAny \/ TransitionByAny \/ Tick

SpecConc == Init /\ [][NextConc]_vars

\* --------------------------------------------------------- sync-dms steps
DocIds == 1..MaxDocs

Requests ==
  [ action : SyncActions, dmsSystemId : SystemIds,
    documentIds : SUBSET DocIds, dryRun : BOOLEAN,
    conflictResolution : Policies ]

\* What the external DMS lists for a pull: a failure of the listing call or
\* a list of descriptors.
fetchDocumentsFromDMS ==
  { [ ok |-> FALSE, documents |-> << >> ] } \cup
  { [ ok |-> TRUE, documents |-> l ] :
      l \in UNION { [ 1..k -> ExternalDocuments ] : k \in 0..MaxList } }

\* The responses of the serve handler.
ErrorResponse(message) ==
  [ NoResponse EXCEPT !.success = FALSE, !.error = message,
                      !.shape = "error" ]

ReportResponse(report) ==
  [ NoResponse EXCEPT !.success = TRUE, !.shape = "report",
                      !.report = report ]

FullSyncResponse(pushResult, pullResult) ==
  [ NoResponse EXCEPT !.success = TRUE, !.shape = "full_sync",
                      !.push = pushResult, !.pull = pullResult ]

StatusResponse(lastSync) ==
  [ NoResponse EXCEPT !.success = TRUE, !.shape = "status",
                      !.lastSync = lastSync ]

\* the greatest created_at among the entries of logs numbered in S
RECURSIVE LatestOf(_, _)
LatestOf(logs, S) ==
  IF S = {} THEN NULL
  ELSE LET k    == CHOOSE x \in S : TRUE
           rest == LatestOf(logs, S \ { k })
       IN IF rest = NULL \/ logs[k].created_at > rest
          THEN logs[k].created_at ELSE rest

\* getDMSSyncStatus: lastSync is created_at of the newest dms_sync_logs row
\* whose dms_system_id equals the dmsSystemId of the request; no row equals
\* a missing dmsSystemId.
getDMSSyncStatus(logs, dmsSystemId) ==
  LatestOf(logs, { k \in 1..Len(logs) :
                     /\ dmsSystemId # NULLTEXT
                     /\ logs[k].dms_system_id = dmsSystemId })

\* catch (error) of the serve handler: the run ends with the error response.
Fail(r, message) ==
  [ r EXCEPT !.phase = "done", !.response = ErrorResponse(message) ]

\* logSyncOperation: result.successful || 0, result.failed || 0,
\* result.totalDocuments || 0 of the handler's result object.
logSyncOperation(logs, action, dmsSystemId, response, t) ==
  LET top == IF response.shape = "report" THEN response.report
             ELSE EmptyReport
  IN Append(logs, [ operation     |-> action,
                    dms_system_id |-> dmsSystemId,
                    success       |-> top.successful,
                    failed        |-> top.failed,
                    total         |-> top.totalDocuments,
                    created_at    |-> t ])

\* pushDocumentsToDMS up to its loop: the query, then the configuration.
StartPush(r, table, queryOk) ==
  IF ~queryOk THEN Fail(r, "query")
  ELSE IF FindConfig(r.request.dmsSystemId) = << >>
  THEN Fail(r, "DMS configuration not found")
  ELSE [ r EXCEPT !.phase = "push",
                  !.queue = PushCandidates(table, r.request.documentIds),
                  !.results = << >> ]

\* pullDocumentsFromDMS up to its loop: the configuration, then the listing.
StartPull(r, answer) ==
  IF FindConfig(r.request.dmsSystemId) = << >>
  THEN Fail(r, "DMS configuration not found")
  ELSE IF ~answer.ok THEN Fail(r, "listing")
  ELSE [ r EXCEPT !.phase = "pull", !.listing = answer.documents,
                  !.results = << >> ]

\* The handler answers and the invocation is over.
Answer(r, response) == [ r EXCEPT !.phase = "done", !.response = response ]

\* case 'push'
InvokePush(i, req) ==
  /\ run[i].phase = "idle"
  /\ req.action = "push"
  /\ \E queryOk \in BOOLEAN :
       run' = [ run EXCEPT ![i] =
                  StartPush([ IdleRun EXCEPT !.request = req ], docs,
                            queryOk) ]
  /\ UNCHANGED << docs, syncLogs >>
  /\ UNCHANGED << wfVars, apiVars, intVars >>

\* case 'full_sync': its push half
InvokeFullSync(i, req) ==
  /\ run[i].phase = "idle"
  /\ req.action = "full_sync"
  /\ \E queryOk \in BOOLEAN :
       run' = [ run EXCEPT ![i] =
                  StartPush([ IdleRun EXCEPT !.request = req ], docs,
                            queryOk) ]
  /\ UNCHANGED << docs, syncLogs >>
  /\ UNCHANGED << wfVars, apiVars, intVars >>

\* case 'pull'
InvokePull(i, req) ==
  /\ run[i].phase = "idle"
  /\ req.action = "pull"
  /\ \E answer \in fetchDocumentsFromDMS :
       run' = [ run EXCEPT ![i] =
                  StartPull([ IdleRun EXCEPT !.request = req ], answer) ]
  /\ UNCHANGED << docs, syncLogs >>
  /\ UNCHANGED << wfVars, apiVars, intVars >>

\* case 'status': getDMSSyncStatus, then logSyncOperation and the response
InvokeStatus(i, req) ==
  /\ run[i].phase = "idle"
  /\ req.action = "status"
  /\ \E queryOk \in BOOLEAN :
       LET r        == [ IdleRun EXCEPT !.request = req ]
           response == StatusResponse(getDMSSyncStatus(syncLogs,
                                                       req.dmsSystemId))
       IN IF queryOk
          THEN /\ run' = [ run EXCEPT ![i] = Answer(r, response) ]
               /\ syncLogs' = logSyncOperation(syncLogs, req.action,
                                               req.dmsSystemId, response,
                                               now)
          ELSE /\ run' = [ run EXCEPT ![i] = Fail(r, "status query") ]
               /\ UNCHANGED syncLogs
  /\ UNCHANGED docs
  /\ UNCHANGED << wfVars, apiVars, intVars >>

\* default: throw new Error('Invalid sync action')
InvokeInvalid(i, req) ==
  /\ run[i].phase = "idle"
  /\ req.action \notin { "push", "pull", "full_sync", "status" }
  /\ run' = [ run EXCEPT ![i] =
                Fail([ IdleRun EXCEPT !.request = req ],
                     "Invalid sync action") ]
  /\ UNCHANGED << docs, syncLogs >>
  /\ UNCHANGED << wfVars, apiVars, intVars >>

\* PushStep without the catch inside the loop: the item's error reaches the
\* handler's catch.
PushStep_NoCatch(i) ==
  LET r == run[i] IN
  /\ r.phase = "push"
  /\ Len(r.results) < Len(r.queue)
  /\ \E env \in PushEnvs :
       LET d   == r.queue[Len(r.results) + 1]
           out == PushItem(docs, d, FindConfig(r.request.dmsSystemId)[1],
                           r.request.dryRun, env, now)
       IN /\ docs' = out.table
          /\ run' = [ run EXCEPT ![i] =
                        IF out.entry.status = "error"
                        THEN Fail(r, out.entry.error)
                        ELSE [ r EXCEPT !.results = Append(@, out.entry) ] ]
  /\ UNCHANGED syncLogs
  /\ UNCHANGED << wfVars, apiVars, intVars >>

\* One iteration of for (const doc of documents) in pushDocumentsToDMS.
PushStep(i) ==
  LET r == run[i] IN
  /\ r.phase = "push"
  /\ Len(r.results) < Len(r.queue)
  /\ \E env \in PushEnvs :
       LET d   == r.queue[Len(r.results) + 1]
           out == PushItem(docs, d, FindConfig(r.request.dmsSystemId)[1],
                           r.request.dryRun, env, now)
       IN /\ docs' = out.table
          /\ run' = [ run EXCEPT ![i] =
                        [ r EXCEPT
                            !.results = Append(@, out.entry),
                            !.audit = out.audit,
                            !.stored = @ \cup out.stored,
                            !.effects =
                              [ downloads |-> @.downloads + out.downloads,
                                uploads   |-> @.uploads + out.uploads,
                                writes    |-> @.writes + out.writes ] ] ]
  /\ UNCHANGED syncLogs
  /\ UNCHANGED << wfVars, apiVars, intVars >>

\* pushDocumentsToDMS returns to case 'push': log and respond.
PushReturn(i) ==
  LET r        == run[i]
      response == ReportResponse(SyncReport(Len(r.queue), r.results))
  IN /\ r.phase = "push"
     /\ r.request.action = "push"
     /\ Len(r.results) = Len(r.queue)
     /\ run' = [ run EXCEPT ![i] = Answer(r, response) ]
     /\ syncLogs' = logSyncOperation(syncLogs, r.request.action,
                                     r.request.dmsSystemId, response, now)
     /\ UNCHANGED docs
     /\ UNCHANGED << wfVars, apiVars, intVars >>

\* FullSyncPull that does not wait for the push loop to end.
FullSyncPull_Early(i) ==
  LET r == run[i] IN
  /\ r.phase = "push"
  /\ r.request.action = "full_sync"
  /\ \E answer \in fetchDocumentsFromDMS :
       run' = [ run EXCEPT ![i] =
                  StartPull([ r EXCEPT !.pushReport =
                                SyncReport(Len(r.queue), r.results) ],
                            answer) ]
  /\ UNCHANGED << docs, syncLogs >>
  /\ UNCHANGED << wfVars, apiVars, intVars >>

\* pushDocumentsToDMS returns to case 'full_sync': the pull half starts.
FullSyncPull(i) ==
  LET r == run[i] IN
  /\ r.phase = "push"
  /\ r.request.action = "full_sync"
  /\ Len(r.results) = Len(r.queue)
  /\ \E answer \in fetchDocumentsFromDMS :
       run' = [ run EXCEPT ![i] =
                  StartPull([ r EXCEPT !.pushReport =
                                SyncReport(Len(r.queue), r.results) ],
                            answer) ]
  /\ UNCHANGED << docs, syncLogs >>
  /\ UNCHANGED << wfVars, apiVars, intVars >>

\* One iteration of for (const extDoc of externalDocs) in
\* pullDocumentsFromDMS.
PullStep(i) ==
  LET r == run[i] IN
  /\ r.phase = "pull"
  /\ Len(r.results) < Len(r.listing)
  /\ \E env \in PullEnvs :
       LET extDoc == r.listing[Len(r.results) + 1]
           out    == PullItem(docs, extDoc, r.request.dryRun, env, now)
       IN /\ docs' = out.table
          /\ run' = [ run EXCEPT ![i] =
                        [ r EXCEPT
                            !.results = Append(@, out.entry),
                            !.audit = out.audit,
                            !.effects.writes = @ + out.writes ] ]
  /\ UNCHANGED syncLogs
  /\ UNCHANGED << wfVars, apiVars, intVars >>

\* pullDocumentsFromDMS returns: log and respond (case 'pull' and the end of
\* case 'full_sync').
PullReturn(i) ==
  LET r        == run[i]
      report   == SyncReport(Len(r.listing), r.results)
      response == IF r.request.action = "pull"
                  THEN ReportResponse(report)
                  ELSE FullSyncResponse(r.pushReport, report)
  IN /\ r.phase = "pull"
     /\ Len(r.results) = Len(r.listing)
     /\ run' = [ run EXCEPT ![i] = Answer(r, response) ]
     /\ syncLogs' = logSyncOperation(syncLogs, r.request.action,
                                     r.request.dmsSystemId, response, now)
     /\ UNCHANGED docs
     /\ UNCHANGED << wfVars, apiVars, intVars >>

\* A push against any system, any scope, dry or not.
PushRequests ==
  { req \in Requests :
      req.action = "push" /\ req.conflictResolution = NULLTEXT }

\* A pull of the configured system under any policy, dry or not.
PullRequests ==
  { req \in Requests :
      /\ req.action = "pull"
      /\ req.documentIds = {}
      /\ req.dmsSystemId = "sharepoint-main" }

\* public.documents after an earlier push that synced document 1.
SyncedDocument(d) ==
  [ UploadedDocument EXCEPT !.external_dms_id =
                              UniqueId(UploadedDocument.file_name),
                            !.synced_at = 0,
                            !.sync_metadata = "{sharepoint}" ]

InitSynced ==
  /\ now = 0
  /\ app = NewApplication(0)
  /\ thread = FALSE
  /\ seen = [ a \in Actors |-> NULL ]
  /\ last = NoOutcome
  /\ docs = [ d \in 1..MaxDocs |->
                IF d = 1 THEN SyncedDocument(d) ELSE UploadedDocument ]
  /\ run = [ i \in Invocations |-> IdleRun ]
  /\ syncLogs = << >>
  /\ tokens = [ s \in Services |-> NoTokenInfo ]
  /\ caller = [ c \in Callers |-> IdleCaller ]
  /\ issued = 0
  /\ handled = NoHandled
  /\ apiErrorLogs = << >>
  /\ rateLimits = [ k \in RateKeys |-> NoRateLimitInfo ]
  /\ checked = NoCheck
  /\ granted = [ k \in RateKeys |-> 0 ]

\* One push or pull invocation.
NextSync ==
  \/ \E req \in PushRequests : InvokePush("i1", req)
  \/ \E req \in PullRequests : InvokePull("i1", req)
  \/ PushStep("i1")
  \/ PushReturn("i1")
  \/ PullStep("i1")
  \/ PullReturn("i1")

SpecSync == InitSynced /\ [][NextSync]_vars

\* Any action against any system, default scope and options.
TriggerRequests ==
  { req \in Requests :
      /\ req.documentIds = {}
      /\ ~req.dryRun
      /\ req.conflictResolution = NULLTEXT }

NextTrigger ==
  \/ \E req \in TriggerRequests : InvokePush("i1", req)
  \/ \E req \in TriggerRequests : InvokePull("i1", req)
  \/ \E req \in TriggerRequests : InvokeFullSync("i1", req)
  \/ \E req \in TriggerRequests : InvokeStatus("i1", req)
  \/ \E req \in TriggerRequests : InvokeInvalid("i1", req)
  \/ PushStep("i1")
  \/ PushReturn("i1")
  \/ FullSyncPull("i1")
  \/ PullStep("i1")
  \/ PullReturn("i1")

SpecTrigger == Init /\ [][NextTrigger]_vars

\* A full_sync of the configured system over document 1 or documents 1, 2.
FullSyncRequests ==
  { req \in Requests :
      /\ req.action = "full_sync"
      /\ req.documentIds \in { { 1 }, { 1, 2 } }
      /\ ~req.dryRun
      /\ req.conflictResolution = NULLTEXT
      /\ req.dmsSystemId = "sharepoint-main" }

NextFullSync ==
  \/ \E req \in FullSyncRequests : InvokeFullSync("i1", req)
  \/ PushStep("i1")
  \/ FullSyncPull("i1")
  \/ PullStep("i1")
  \/ PullReturn("i1")

SpecFullSync == Init /\ [][NextFullSync]_vars

\* Two pushes, the second made after the first was answered.
RepeatedPushRequests ==
  { req \in PushRequests : ~req.dryRun /\ req.dmsSystemId = NULLTEXT }

NextPushTwice ==
  \/ \E req \in RepeatedPushRequests : InvokePush("i1", req)
  \/ PushStep("i1")
  \/ PushReturn("i1")
  \/ /\ run["i1"].phase = "done"
     /\ \E req \in RepeatedPushRequests : InvokePush("i2", req)
  \/ PushStep("i2")
  \/ PushReturn("i2")

SpecPushTwice == Init /\ [][NextPushTwice]_vars

\* Two pushes whose invocations may overlap.
NextOverlap ==
  \/ \E req \in RepeatedPushRequests : InvokePush("i1", req)
  \/ \E req \in RepeatedPushRequests : InvokePush("i2", req)
  \/ PushStep("i1")
  \/ PushStep("i2")
  \/ PushReturn("i1")
  \/ PushReturn("i2")

SpecOverlap == Init /\ [][NextOverlap]_vars

\* The client asks for a running invocation to be cancelled: the request's
\* signal is aborted.  The handler and pushDocumentsToDMS never read it.
RequestCancel(i) ==
  /\ run[i].phase = "push"
  /\ ~run[i].cancelRequested
  /\ run' = [ run EXCEPT ![i].cancelRequested = TRUE ]
  /\ UNCHANGED << docs, syncLogs >>
  /\ UNCHANGED << wfVars, apiVars, intVars >>

\* A push that the client may cancel while it runs.
NextCancel ==
  \/ \E req \in RepeatedPushRequests : InvokePush("i1", req)
  \/ RequestCancel("i1")
  \/ PushStep("i1")
  \/ PushReturn("i1")

SpecCancel == Init /\ [][NextCancel]_vars

\* A push of the configured system and status queries for it, with the
\* clock running.
StatusRequests ==
  { req \in TriggerRequests : req.dmsSystemId = "sharepoint-main" }

NextStatus ==
  \/ \E req \in StatusRequests : InvokePush("i1", req)
  \/ PushStep("i1")
  \/ PushReturn("i1")
  \/ \E req \in StatusRequests : InvokeStatus("i1", req)
  \/ \E req \in StatusRequests : InvokeStatus("i2", req)
  \/ Tick

SpecStatus == Init /\ [][NextStatus]_vars

\* UPDATE applications SET status = s, audit rows kept
AuditedTransition ==
  \E s \in Statuses :
    AuditedStatement([ app EXCEPT !.status = s ], "transition")

\* UPDATE applications SET form_data = f, audit rows kept
AuditedEditForm ==
  \E f \in FormData :
    AuditedStatement([ app EXCEPT !.form_data = f ], "edit_form")

\* A push of document 1 to the default system.
AuditedPushRequests ==
  { req \in RepeatedPushRequests : req.documentIds = { 1 } }

\* Changes of the application row and of a document row with the audit
\* rows they write.
NextAudit ==
  \/ AuditedTransition
  \/ AuditedEditForm
  \/ \E req \in AuditedPushRequests : InvokePush("i1", req)
  \/ PushStep("i1")
  \/ PushReturn("i1")

SpecAudit == Init /\ [][NextAudit]_vars

\* ------------------------------------------- ExternalAPITokenManager steps

\* getToken up to its first await: the cached token is returned, or
\* refreshToken is entered.
GetToken(c, s) ==
  /\ caller[c].pc = "idle"
  /\ caller' = [ caller EXCEPT ![c] =
       IF ~tokens[s].present \/ isTokenExpired(tokens[s], now)
       THEN [ pc |-> "refreshing", service |-> s,
              got |-> IdleCaller.got, started |-> issued ]
       ELSE [ pc |-> "idle", service |-> s,
              got |-> [ kind |-> "token", token |-> tokens[s].token,
                        cached |-> TRUE ],
              started |-> issued ] ]
  /\ UNCHANGED << tokens, issued >>
  /\ UNCHANGED << wfVars, syncVars, intVars >>

\* refreshToken resumes after its awaits: switch (config.type)
RefreshToken(c) ==
  LET s == caller[c].service IN
  /\ caller[c].pc = "refreshing"
  /\ IF ServiceType[s] = "oauth2"
     THEN \E answer \in TokenAnswers :
            LET fresh == issued + 1
                r     == refreshOAuth2Token(answer, fresh, now)
            IN /\ answer.kind = "granted" => issued < MaxTokens
               /\ issued' = IF answer.kind = "granted" THEN fresh ELSE issued
               /\ tokens' = IF r.stored THEN [ tokens EXCEPT ![s] = r.info ]
                            ELSE tokens
               /\ caller' = [ caller EXCEPT ![c] =
                    [ @ EXCEPT !.pc = "idle",
                               !.got = [ kind |-> r.kind, token |-> r.token,
                                         cached |-> FALSE ] ] ]
     ELSE /\ caller' = [ caller EXCEPT ![c] =
               [ @ EXCEPT !.pc = "idle",
                          !.got = [ kind |-> "token",
                                    token |-> IF ServiceType[s] = "jwt"
                                              THEN JwtPlaceholder
                                              ELSE ApiKey,
                                    cached |-> FALSE ] ] ]
          /\ UNCHANGED << tokens, issued >>
  /\ UNCHANGED << wfVars, syncVars, intVars >>

NextToken ==
  \/ \E c \in Callers : \E s \in Services : GetToken(c, s)
  \/ \E c \in Callers : RefreshToken(c)
  \/ Tick

SpecToken == Init /\ [][NextToken]_vars

\* ------------------------------------ APIErrorHandler, APIRateLimiter steps

\* APIErrorHandler.handleAPIError(error, context): the error is logged (the
\* result of the insert is not looked at), then classified.
HandleAPIError(error, context) ==
  /\ Len(apiErrorLogs) < MaxErrors
  /\ \E logOk \in BOOLEAN :
       apiErrorLogs' = IF logOk
                       THEN logAPIError(apiErrorLogs, error, context, now)
                       ELSE apiErrorLogs
  /\ handled' = [ error |-> error, context |-> context,
                  response |-> handleAPIError(error) ]
  /\ UNCHANGED << rateLimits, checked, granted >>
  /\ UNCHANGED << wfVars, syncVars, apiVars >>

NextErrors ==
  \E error \in APIErrors : \E context \in APIContexts :
    HandleAPIError(error, context)

SpecErrors == Init /\ [][NextErrors]_vars

\* APIRateLimiter.checkRateLimit(service, endpoint) for the key k
CheckRateLimit(k) ==
  LET r == checkRateLimit(rateLimits[k], k[1], now) IN
  /\ rateLimits' = [ rateLimits EXCEPT ![k] = r.limit ]
  /\ checked' = [ key |-> k, result |-> r.ok ]
  /\ granted' = [ granted EXCEPT ![k] =
                    IF ~r.ok THEN @ ELSE IF r.reset THEN 1 ELSE @ + 1 ]
  /\ UNCHANGED << handled, apiErrorLogs >>
  /\ UNCHANGED << wfVars, syncVars, apiVars >>

NextRate ==
  \/ \E k \in RateKeys : CheckRateLimit(k)
  \/ Tick

SpecRate == Init /\ [][NextRate]_vars

\* ---------------------------------------------------- lifecycle (spec)
\* The application lifecycle of the workflow description: the main chain,
\* the side branches from non-terminal states, appeal of a decision and the
\* return from on_hold, appealed and additional_info_required.
NonTerminal ==
  { "draft", "submitted", "under_review", "additional_info_required",
    "interview_scheduled", "decision_pending", "on_hold", "appealed" }

LifecycleEdges ==
  { << "draft", "submitted" >>, << "submitted", "under_review" >>,
    << "under_review", "additional_info_required" >>,
    << "under_review", "interview_scheduled" >>,
    << "under_review", "decision_pending" >>,
    << "additional_info_required", "under_review" >>,
    << "additional_info_required", "decision_pending" >>,
    << "interview_scheduled", "decision_pending" >>,
    << "decision_pending", "approved" >>,
    << "decision_pending", "rejected" >>,
    << "approved", "appealed" >>, << "rejected", "appealed" >>,
    << "approved", "expired" >>,
    << "appealed", "under_review" >>, << "appealed", "decision_pending" >>,
    << "appealed", "approved" >>, << "appealed", "rejected" >>,
    << "on_hold", "submitted" >>, << "on_hold", "under_review" >> }
  \cup { << s, t >> : s \in NonTerminal \ { "draft" },
                      t \in { "withdrawn", "on_hold", "expired" } }
  \cup { << "draft", "withdrawn" >>, << "draft", "expired" >> }

\* Required-field validation of form_data (external collaborator): the
\* default empty object has no required field filled in.
RequiredFieldsPresent(f) == f # "empty"

\* A step that executes one UPDATE statement on the application row.
StatementStep == now' = now /\ thread' = thread

TypeOK ==
  /\ app.status \in Statuses
  /\ app.version \in DefaultVersion..MaxVersion
  /\ now \in Times

\* ---------------------------------------------------------------- claims

\* C1: every accepted status change follows an edge of the application
\* lifecycle; a change along any other pair (such as submitted -> approved)
\* is rejected and leaves the row as it was.
C1_OnlyLifecycleEdges ==
  [][ app'.status # app.status
        => << app.status, app'.status >> \in LifecycleEdges ]_vars

\* C2: a transition requested by an actor whose read version is no longer
\* the stored version is never applied.
C2_StaleNeverApplied == ~(last.result = "ok" /\ last.stale)

\* C3: every accepted update adds exactly 1 to version when it changes
\* status or form_data and leaves version unchanged otherwise, so version
\* never decreases.
C3_VersionCountsChanges ==
  [][ app'.version =
        app.version + (IF app'.status # app.status
                          \/ app'.form_data # app.form_data
                       THEN 1 ELSE 0) ]_vars

C5_SubmittedAtSetOnce ==
  [][ /\ (app.status = "draft" /\ app'.status # "draft")
           => app'.submitted_at = now
      /\ app.submitted_at # NULL => app'.submitted_at = app.submitted_at
    ]_vars

\* C6: a transition into submitted is accepted only from draft and only
\* when form_data passes required-field validation.
C6_SubmitNeedsDraftAndValidForm ==
  [][ (app'.status = "submitted" /\ app.status # "submitted")
        => app.status = "draft" /\ RequiredFieldsPresent(app'.form_data)
    ]_vars

\* C7: review_started_at is set on entry into under_review and
\* decision_date on entry into approved or rejected; once set, neither is
\* changed by a later transition.
C7_ReviewDatesSetOnce ==
  [][ app'.status # app.status =>
        /\ app.review_started_at # NULL
             => app'.review_started_at = app.review_started_at
        /\ app.decision_date # NULL
             => app'.decision_date = app.decision_date
        /\ app'.status = "under_review" => app'.review_started_at # NULL
        /\ app'.status \in { "approved", "rejected" }
             => app'.decision_date # NULL
    ]_vars

\* C8: a transition persists all of its effects or none: a changed status
\* comes with version + 1 and its derived timestamps, and a rejected
\* statement leaves the row exactly as it was.
DerivedPresent(row) ==
  /\ row.status # "draft" => row.submitted_at # NULL
  /\ row.status = "under_review" => row.review_started_at # NULL
  /\ row.status \in { "approved", "rejected" } => row.decision_date # NULL

C8_AllOrNothing ==
  [][ /\ app'.status # app.status
           => /\ app'.version = app.version + 1
              /\ DerivedPresent(app')
              /\ last'.result = "ok"
      /\ StatementStep /\ last'.result # "ok" => app' = app
    ]_vars

C8_Witness ==
  /\ last.result = "not_null_violation"
  /\ last.target = "under_review"
  /\ app.status = "submitted"
  /\ app.review_started_at = NULL
  /\ app.version = DefaultVersion + 1

\* C9: an accepted update that changes the status emits exactly one event
\* carrying the application id, the old and the new status; an accepted
\* update that leaves the status unchanged emits none.
C9_OneEventPerStatusChange ==
  [][ StatementStep /\ last'.result = "ok" =>
        last'.events =
          IF app'.status # app.status
          THEN << [ application_id |-> "app",
                    old_status     |-> app.status,
                    new_status     |-> app'.status ] >>
          ELSE << >>
    ]_vars

C9_Witness ==
  /\ last.result = "ok"
  /\ Len(last.events) = 1
  /\ last.events[1].old_status = "submitted"
  /\ last.events[1].new_status = "under_review"
  /\ app.status = "under_review"

\* C10: a failure of the notification insert never undoes the transition:
\* the requested status is persisted all the same.
C10_NotifyFailureKeepsTransition ==
  last.result = "not_null_violation" => app.status = last.target

\* C11: once status is withdrawn or expired no later update changes it,
\* and from approved or rejected the only accepted status change is to
\* appealed.
C11_TerminalStatuses ==
  [][ /\ app.status \in { "withdrawn", "expired" }
           => app'.status = app.status
      /\ (app.status \in { "approved", "rejected" }
            /\ app'.status # app.status) => app'.status = "appealed"
    ]_vars

\* The candidates of run i that its loop has not reached yet.
Pending(i) ==
  { run[i].queue[k] : k \in (Len(run[i].results) + 1)..Len(run[i].queue) }

\* C12: a Document whose external id is set and which is not marked dirty
\* is never awaiting upload in a push run, and a second push with the same
\* scope after a first push that synced all its candidates performs no
\* upload and reports zero successful items.
C12_SecondPushUploadsNothing ==
  /\ \A i \in Invocations :
       run[i].phase = "push" =>
         \A d \in Pending(i) :
           docs[d].external_dms_id = NULL \/ docs[d].needs_sync
  /\ ( /\ run["i1"].response.shape = "report"
       /\ run["i2"].response.shape = "report"
       /\ run["i1"].request.documentIds = run["i2"].request.documentIds
       /\ run["i1"].response.report.failed = 0 )
     => /\ run["i2"].response.report.successful = 0
        /\ run["i2"].effects.uploads = 0


\* The list a run's loop walks: the queried documents in a push, the listed
\* descriptors in a pull.
Candidates(r) == IF r.phase = "pull" THEN r.listing ELSE r.queue

\* The entry is the outcome of candidate number k of r.
EntryIsFor(r, entry, k) ==
  IF r.phase = "pull"
  THEN entry.externalId = r.listing[k].id
  ELSE entry.documentId = r.queue[k]

NumberWith(results, st) ==
  Cardinality({ k \in 1..Len(results) : results[k].status = st })

\* C13: in a push or pull run every step of the loop records exactly one
\* outcome, for the next candidate, whether the item failed or not, and the
\* run ends only after the last candidate, with a report that counts the
\* failed items; a failed item never ends the run.
C13_ItemFailureNeverStopsRun ==
  [][ \A i \in Invocations :
        ( run[i].phase \in { "push", "pull" } /\ run'[i] # run[i] ) =>
          LET r == run[i]
              n == Len(run[i].results)
          IN IF n < Len(Candidates(r))
             THEN /\ run'[i].phase = r.phase
                  /\ Len(run'[i].results) = n + 1
                  /\ SubSeq(run'[i].results, 1, n) = r.results
                  /\ EntryIsFor(r, run'[i].results[n + 1], n + 1)
             ELSE /\ run'[i].phase = "done"
                  /\ run'[i].response.success
                  /\ run'[i].response.shape = "report"
                  /\ run'[i].response.report.results = r.results
                  /\ run'[i].response.report.totalDocuments
                       = Len(Candidates(r))
                  /\ run'[i].response.report.failed
                       = NumberWith(r.results, "error")
                  /\ run'[i].response.report.successful
                       = NumberWith(r.results, "success")
    ]_vars

\* A run was answered in which an item failed and a later item succeeded.
C13_Witness ==
  \E i \in Invocations :
    /\ run[i].phase = "done"
    /\ run[i].response.shape = "report"
    /\ run[i].response.report.failed >= 1
    /\ run[i].response.report.successful >= 1
    /\ \E k, l \in 1..Len(run[i].results) :
         /\ k < l
         /\ run[i].results[k].status = "error"
         /\ run[i].results[l].status = "success"

\* settings.retryAttempts of the configured DMS
RetryBound == getDMSConfigurations[1].retryAttempts

\* C14: a push item recorded as failed on a transient upload error has had
\* its upload attempted up to the configured retry count, one recorded as
\* failed on an authentication or rejected error has had at most one
\* attempt, and no item has more attempts than the bound allows.
C14_TransientRetriedUpToBound ==
  \A i \in Invocations :
    \A k \in 1..Len(run[i].results) :
      LET e == run[i].results[k] IN
      /\ e.error = "transient" => e.attempts >= RetryBound
      /\ e.error \in { "authentication", "rejected" } => e.attempts <= 1
      /\ e.attempts <= RetryBound + 1

\* C15: a run in which the external store never accepts the credentials
\* records no item as attempted and is not answered with success = true.
C15_AuthenticationFailureFailsRun ==
  \A i \in Invocations :
    ( /\ run[i].phase = "done"
      /\ run[i].results # << >>
      /\ \A k \in 1..Len(run[i].results) :
           run[i].results[k].error = "authentication" )
    => /\ ~run[i].response.success
       /\ run[i].response.report.results = << >>

\* C17: a step of a dry run changes no Document row and makes no download,
\* upload or write; its report records every candidate once as dry run
\* (would_sync in a push) with dryRun = totalDocuments and successful =
\* failed = 0.
C17_DryRunHasNoEffect ==
  [][ \A i \in Invocations :
        ( run'[i].request.dryRun /\ run'[i] # run[i] ) =>
          /\ docs' = docs
          /\ run'[i].effects = NoEffects
          /\ run'[i].response.shape = "report" =>
               LET rep == run'[i].response.report IN
               /\ Len(rep.results) = Len(Candidates(run[i]))
               /\ rep.totalDocuments = Len(Candidates(run[i]))
               /\ rep.dryRun = rep.totalDocuments
               /\ rep.successful = 0
               /\ rep.failed = 0
               /\ \A k \in 1..Len(rep.results) :
                    /\ rep.results[k].status = "dry_run"
                    /\ EntryIsFor(run[i], rep.results[k], k)
                    /\ run[i].phase = "push"
                         => rep.results[k].action = "would_sync"
    ]_vars

\* A dry push over at least two candidates was answered.
C17_Witness ==
  \E i \in Invocations :
    /\ run[i].request.dryRun
    /\ run[i].request.action = "push"
    /\ run[i].response.shape = "report"
    /\ run[i].response.report.dryRun >= 2


\* Some item of the run was processed (in either half of a full_sync).
ItemsAttempted(r) == r.results # << >> \/ r.pushReport.results # << >>

EffectivePolicy(req) ==
  IF req.conflictResolution # NULLTEXT THEN req.conflictResolution
  ELSE FindConfig(req.dmsSystemId)[1].conflictResolution

\* file name, size, type and metadata of a row / of a descriptor
MappedFields(row) ==
  [ name |-> row.file_name, size |-> row.file_size,
    type |-> row.file_type, metadata |-> row.metadata ]

DescriptorFields(extDoc) ==
  [ name |-> extDoc.name, size |-> extDoc.size,
    type |-> extDoc.type, metadata |-> extDoc.metadata ]

\* Invocation i processes the next descriptor of its pull in this step.
PullItemStep(i) ==
  /\ run[i].phase = "pull"
  /\ run'[i].phase = "pull"
  /\ Len(run'[i].results) = Len(run[i].results) + 1

NextDescriptor(i) == run[i].listing[Len(run[i].results) + 1]

Queued(r) == { r.queue[k] : k \in 1..Len(r.queue) }

InProgress(r) == r.phase \in { "push", "pull" }

\* The system a run works against.
TargetSystem(r) == FindConfig(r.request.dmsSystemId)[1].systemId

\* C23: no two invocations are in progress against the same external system
\* at the same time.
C23_OneRunPerSystem ==
  \A i, j \in Invocations :
    ( /\ i # j
      /\ InProgress(run[i])
      /\ InProgress(run[j]) )
    => TargetSystem(run[i]) # TargetSystem(run[j])

\* The counts of the report or reports a completed run was answered with.
AnsweredCounts(response) ==
  IF response.shape = "full_sync"
  THEN [ success |-> response.push.successful + response.pull.successful,
         failed  |-> response.push.failed + response.pull.failed,
         total   |-> response.push.totalDocuments
                       + response.pull.totalDocuments ]
  ELSE [ success |-> response.report.successful,
         failed  |-> response.report.failed,
         total   |-> response.report.totalDocuments ]

\* C24: entries of the sync log are never changed or removed, and a push,
\* pull or full_sync that completes appends exactly one entry whose action,
\* system and successful/failed/total counts are the run's action, the
\* system it targeted and the counts of its report (of both reports
\* together for full_sync).
C24_OneLogEntryPerRun ==
  [][ /\ Len(syncLogs') >= Len(syncLogs)
      /\ SubSeq(syncLogs', 1, Len(syncLogs)) = syncLogs
      /\ \A i \in Invocations :
           ( /\ run[i].phase # "done"
             /\ run'[i].phase = "done"
             /\ run'[i].response.success
             /\ run'[i].request.action \in { "push", "pull", "full_sync" } )
           => /\ Len(syncLogs') = Len(syncLogs) + 1
              /\ LET e == syncLogs'[Len(syncLogs')]
                     c == AnsweredCounts(run'[i].response)
                 IN /\ e.operation = run'[i].request.action
                    /\ e.dms_system_id = TargetSystem(run'[i])
                    /\ e.success = c.success
                    /\ e.failed = c.failed
                    /\ e.total = c.total
    ]_vars

C26_CachedOnlyWhileValid ==
  [][ \A c \in Callers :
        LET s    == caller'[c].service
            info == tokens[s]
            past == info.expiresAt # NaN /\ info.expiresAt <= now
        IN
        /\ (caller[c].pc = "idle" /\ caller'[c] # caller[c]) =>
             /\ caller'[c].pc = "idle" =>
                  /\ caller'[c].got.cached
                  /\ info.present /\ ~past
                  /\ caller'[c].got.token = info.token
             /\ (~info.present \/ past) => caller'[c].pc = "refreshing"
        /\ ( /\ caller[c].pc = "refreshing" /\ caller'[c].pc = "idle"
             /\ issued' # issued ) =>
             /\ caller'[c].got =
                  [ kind |-> "token", token |-> issued', cached |-> FALSE ]
             /\ tokens'[caller[c].service].token = issued'
    ]_vars

\* a caller was served from the cache after time had passed, and an expired
\* entry has been replaced by a second token
C26_Witness ==
  /\ now >= 1
  /\ issued = 2
  /\ \E c, d \in Callers :
       /\ caller[c].pc = "idle" /\ caller[c].got.cached
       /\ caller[c].got.token = 2
       /\ caller[d].pc = "idle" /\ ~caller[d].got.cached
       /\ caller[d].got.token = 2

\* C27: after a token acquisition that failed, no unusable entry is kept as
\* current: every entry of the cache holds an access token and a numeric
\* expiry, and no caller is handed a cached value that is not a token.
C27_NoUnusableEntryKept ==
  /\ \A s \in Services :
       tokens[s].present =>
         tokens[s].token # NoToken /\ tokens[s].expiresAt # NaN
  /\ \A c \in Callers :
       (caller[c].pc = "idle" /\ caller[c].got.cached) =>
         caller[c].got.token # NoToken

\* the last calls of c and d were re-acquisitions for the same service that
\* were both granted a token and overlapped: each began before the other's
\* token was issued
OverlappingRefreshes(c, d) ==
  /\ c # d
  /\ caller[c].pc = "idle" /\ caller[d].pc = "idle"
  /\ caller[c].service = caller[d].service
  /\ ~caller[c].got.cached /\ ~caller[d].got.cached
  /\ caller[c].got.token >= 1 /\ caller[d].got.token >= 1
  /\ caller[c].started < caller[d].got.token
  /\ caller[d].started < caller[c].got.token

\* C28: token refresh is atomic per provider: when getToken calls for the
\* same provider overlap and all find the cached token missing or expired,
\* then once the refreshes have completed every one of these callers holds
\* the token that is stored in the cache for that provider.
C28_RefreshAtomicPerProvider ==
  \A c, d \in Callers :
    OverlappingRefreshes(c, d) =>
      /\ caller[c].got.token = caller[d].got.token
      /\ caller[c].got.token = tokens[caller[c].service].token

\* C29: a cancellation requested during a sync run takes effect at the next
\* item boundary: once it has been requested no further item is started (the
\* results of the run get no new entry), and the entries of the items that
\* were started before it stay in the report as they are.
C29_NoItemStartedAfterCancel ==
  [][ \A i \in Invocations :
        run[i].cancelRequested => run'[i].results = run[i].results ]_vars

\* C30: every document whose upload to the external store succeeded has its
\* local external id set to the id the upload returned and its needs-sync
\* condition cleared: in no state does the external store hold an uploaded
\* document whose local row has another (or no) external id or is still
\* marked as needing sync.
C30_UploadedDocumentsAreLinked ==
  \A i \in Invocations :
    \A p \in run[i].stored :
      /\ docs[p[1]].external_dms_id = p[2]
      /\ docs[p[1]].needs_sync = FALSE

\* the candidates of a run that has answered with a report: the documents
\* of a push, the external ids of the descriptors of a pull
ReportedCandidates(r) ==
  IF r.request.action = "push" THEN r.queue
  ELSE [ k \in 1..Len(r.listing) |-> r.listing[k].id ]

\* the candidate an entry of the result list stands for
EntryCandidate(r, e) ==
  IF r.request.action = "push" THEN e.documentId ELSE e.externalId

\* C31: for every push run and every pull run that returns a report, each
\* candidate has exactly one entry in the result list (the k-th entry is the
\* k-th candidate's), and totalDocuments = successful + failed + dryRun =
\* length of the result list; a pull that lists no external document
\* answers successfully with totalDocuments, successful and failed all 0.
C31_ReportCountsAddUp ==
  \A i \in Invocations :
    LET r   == run[i]
        rep == r.response.report
        c   == ReportedCandidates(r)
    IN (r.phase = "done" /\ r.response.shape = "report") =>
         /\ Len(rep.results) = Len(c)
         /\ \A k \in 1..Len(c) : EntryCandidate(r, rep.results[k]) = c[k]
         /\ rep.totalDocuments = Len(rep.results)
         /\ rep.totalDocuments = rep.successful + rep.failed + rep.dryRun
         /\ \A k \in 1..Len(rep.results) :
              rep.results[k].status \in { "success", "error", "dry_run" }
         /\ r.response.success
         /\ (r.request.action = "pull" /\ r.listing = << >>) =>
              rep.totalDocuments = 0 /\ rep.successful = 0 /\ rep.failed = 0

\* a run has answered with a report of two candidates, of which one
\* succeeded and one failed
C31_Witness ==
  \E i \in Invocations :
    /\ run[i].phase = "done" /\ run[i].response.shape = "report"
    /\ run[i].response.report.totalDocuments = 2
    /\ run[i].response.report.successful = 1
    /\ run[i].response.report.failed = 1

\* the rows the default-scope push query selects from table
DefaultScope(table) ==
  { d \in 1..Len(table) :
      table[d].external_dms_id = NULL \/ table[d].needs_sync }

\* this step of invocation i records a failed push item
RecordsFailedPushItem(i) ==
  /\ run[i].phase = "push"
  /\ Len(run'[i].results) = Len(run[i].results) + 1
  /\ run'[i].results[Len(run'[i].results)].status = "error"

\* the sync columns of document d are after the step what they were before
SyncColumnsKept(d) ==
  /\ docs'[d].external_dms_id = docs[d].external_dms_id
  /\ docs'[d].synced_at = docs[d].synced_at
  /\ docs'[d].needs_sync = docs[d].needs_sync
  /\ docs'[d].sync_metadata = docs[d].sync_metadata

AnswersStatus(i) ==
  /\ run[i].phase = "idle"
  /\ run'[i].phase = "done"
  /\ run'[i].response.shape = "status"

\* the time of the most recent push, pull or full_sync entry of logs for the
\* system, NULL when there is none
LastRunTime(logs, dmsSystemId) ==
  LatestOf(logs, { k \in 1..Len(logs) :
                     /\ logs[k].dms_system_id = dmsSystemId
                     /\ logs[k].operation \in { "push", "pull", "full_sync" } })

\* C34: the status action is read-only: it changes no Document and appends
\* no SyncLogEntry, and the lastSync it reports is the time of the most
\* recent push, pull or full_sync run for that system (so two status
\* queries with no run in between report the same lastSync).
C34_StatusIsReadOnly ==
  [][ \A i \in Invocations :
        AnswersStatus(i) =>
          /\ docs' = docs
          /\ syncLogs' = syncLogs
          /\ run'[i].response.lastSync =
               LastRunTime(syncLogs, run'[i].request.dmsSystemId) ]_vars

\* this step ends invocation i, which has changed at least one Document
EndsAfterChanges(i) ==
  /\ run[i].phase # "done"
  /\ run'[i].phase = "done"
  /\ run'[i].effects.writes >= 1

C36_ExternalIdIsUnique ==
  \A a, b \in 1..Len(docs) :
    (a # b /\ docs[a].external_dms_id # NULL) =>
      docs[a].external_dms_id # docs[b].external_dms_id

\* a transient failure: the call timed out, the backend could not be
\* reached, or it answered with a 5xx status
Transient(error) ==
  \/ error.name \in { "TimeoutError", "TypeError" }
  \/ error.status # NULL /\ error.status >= 500 /\ error.status <= 599

\* C32: handleAPIError classifies an external failure as retryable exactly
\* when it is transient (a timeout, an unreachable backend or an HTTP 5xx
\* response); authentication failures (401/403) and every other 4xx
\* response are classified as non-retryable.
C32_RetryableIffTransient ==
  handled # NoHandled =>
    (handled.response.retryable <=> Transient(handled.error))

\* a key of a service: the calls allowed in its current window
AllowedInWindow(k) == granted[k]

\* C37: for each service:endpoint key checkRateLimit returns true at most
\* maxRequests times within one window (between two window resets), the
\* counter of the key is the number of calls allowed in the window, and a
\* call it rejects leaves the counter and the reset time of the key
\* unchanged.
C37_AtMostMaxRequestsPerWindow ==
  [][ \A k \in RateKeys :
        /\ AllowedInWindow(k)' <= getMaxRequests(k[1])
        /\ rateLimits'[k].present =>
             rateLimits'[k].count = AllowedInWindow(k)'
        /\ (checked' = [ key |-> k, result |-> FALSE ]) =>
             /\ rateLimits'[k] = rateLimits[k]
             /\ AllowedInWindow(k)' = AllowedInWindow(k) ]_vars

\* a call was rejected for a key whose window is used up, in a window that
\* began after the clock had advanced
C37_Witness ==
  \E k \in RateKeys :
    /\ checked = [ key |-> k, result |-> FALSE ]
    /\ rateLimits[k].count = getMaxRequests(k[1])
    /\ rateLimits[k].resetTime > getRateLimitWindow(k[1])

====
